---- MODULE Spec2Model ----
(***************************************************************************)
(* The batch import pipeline of balanceUp (src/app/data_importer.py,       *)
(* import_data): one run of the importer, the SQLite store it writes, the  *)
(* import directory it reads and renames files in, and the wall clock.     *)
(*                                                                         *)
(* Text is modelled as a sequence of tokens (<<"Alice">>, <<>> for the     *)
(* empty string); a CSV data row is the sequence of <<header, cell>> pairs *)
(* csv.DictReader yields for it, in header order.  A date that is stored   *)
(* in ISO form is modelled by its day number.                              *)
(***************************************************************************)
EXTENDS Integers, Sequences, FiniteSets, TLC

(* ---- bounds of the model ---- *)
MaxFiles == 2
MaxRows == 2
MaxRuns == 2
MaxDay == 1
MaxSec == 1
MaxHeaders == 2
\* batch_size of the importer, scaled down so that a file can fill a batch
batch_size == 2
\* user ids of the stores merge_duplicate_users is studied on
MaxUsers == 3
\* penalty ids of the stores pay_penalty is studied on
MaxPenalties == 2

Kinds == {"punishments", "dues", "transactions"}

\* SQL NULL / Python None in a date or id column
NULL == 0 - 1
\* a strptime / int() / KeyError failure
ValueError == 0 - 2

(* ---- text and date helpers ---- *)

\* the DD-MM-YYYY and YYYY-MM-DD spellings of day 0, 1, 2
DMY == <<"01-01-2024", "02-01-2024", "03-01-2024">>
YMD == <<"2024-01-01", "2024-01-02", "2024-01-03">>

\* datetime.strptime(cell, fmt): the day number, or ValueError
strptime(cell, fmt) ==
    IF Len(cell) = 1 /\ \E d \in 1..Len(fmt) : fmt[d] = cell[1]
    THEN (CHOOSE d \in 1..Len(fmt) : fmt[d] = cell[1]) - 1
    ELSE ValueError

\* int(cell) for a team_id cell
int(cell) ==
    IF cell = <<"1">> THEN 1
    ELSE IF cell = <<"2">> THEN 2
    ELSE ValueError

\* float(cell) for an amount cell, in the cents the cell counts
float(cell) ==
    IF cell = <<"1050">> THEN 1050
    ELSE IF cell = <<"0">> THEN 0
    ELSE IF cell = <<"-500">> THEN 0 - 500
    ELSE ValueError

\* cell and cell.strip(): a non-empty cell that is not whitespace only
NonBlank(cell) == Len(cell) > 0 /\ \E i \in 1..Len(cell) : cell[i] # " "

\* index of the first token equal to tok at or after position from, else 0
Find(s, tok, from) ==
    IF \E i \in from..Len(s) : s[i] = tok
    THEN CHOOSE i \in from..Len(s) : s[i] = tok /\ \A j \in from..(i - 1) : s[j] # tok
    ELSE 0

\* extract_user_from_subject: the text between the first ": " and the next
\* " (" of the second ": "-separated part; <<>> stands for None
extract_user_from_subject(subject) ==
    LET c1 == Find(subject, ": ", 1)
    IN  IF c1 = 0 THEN <<>>
        ELSE LET c2 == Find(subject, ": ", c1 + 1)
                 end == IF c2 = 0 THEN Len(subject) ELSE c2 - 1
                 user_part == SubSeq(subject, c1 + 1, end)
                 p == Find(user_part, " (", 1)
             IN  IF p = 0 THEN <<>> ELSE SubSeq(user_part, 1, p - 1)

(* ---- schema normalisation ---- *)

column_mapping ==
    [punishments |->
        ("penalty_created" :> "created" @@ "penatly_created" :> "created" @@
         "penalty_user" :> "user" @@ "penatly_user" :> "user" @@
         "username" :> "user" @@
         "penalty_reason" :> "reason" @@ "penatly_reason" :> "reason" @@
         "penalty_name" :> "reason" @@
         "penalty_archived" :> "archived" @@ "penatly_archived" :> "archived" @@
         "penalty_paid" :> "paid_date" @@ "penatly_paid" :> "paid_date" @@
         "user_payment_date" :> "paid_date" @@
         "penalty_amount" :> "amount" @@ "penatly_amount" :> "amount" @@
         "penalty_currency" :> "currency" @@ "penatly_currency" :> "currency" @@
         "penalty_subject" :> "subject" @@ "penatly_subject" :> "subject"),
     dues |->
        ("due_created" :> "created" @@ "due_user" :> "user" @@
         "username" :> "user" @@
         "due_reason" :> "reason" @@ "due_name" :> "reason" @@
         "due_archived" :> "archived" @@
         "due_paid" :> "paid_date" @@ "user_payment_date" :> "paid_date" @@
         "due_amount" :> "amount" @@ "due_currency" :> "currency" @@
         "due_subject" :> "subject"),
     transactions |->
        ("transaction_created" :> "created" @@ "transaction_user" :> "user" @@
         "username" :> "user" @@
         "transaction_reason" :> "reason" @@ "transaction_name" :> "reason" @@
         "transaction_amount" :> "amount" @@
         "transaction_currency" :> "currency" @@
         "transaction_subject" :> "subject")]

\* mapping.get(key, key)
fixed_key(file_type, key) ==
    IF key \in DOMAIN column_mapping[file_type]
    THEN column_mapping[file_type][key]
    ELSE key

\* the dict a row is for the code, keys[i] the key of its i-th cell: the last cell
\* of a key wins
AsDict(keys, row) ==
    [k \in {keys[i] : i \in 1..Len(row)} |->
        row[CHOOSE i \in 1..Len(row) :
                /\ keys[i] = k
                /\ \A j \in 1..Len(row) : keys[j] = k => j <= i][2]]

\* the row as csv.DictReader yields it
raw_row(row) == AsDict([i \in 1..Len(row) |-> row[i][1]], row)

\* fixed_row: the row with every header replaced by its canonical name
fixed_row(file_type, row) ==
    AsDict([i \in 1..Len(row) |-> fixed_key(file_type, row[i][1])], row)

\* dict.get(key, default)
Get(dict, key, default) == IF key \in DOMAIN dict THEN dict[key] ELSE default

(* ---- field transformation ---- *)

\* convert_payment_status(status, paid_date), with today for datetime.now()
convert_payment_status(status, paid_date, today) ==
    IF status = <<"STATUS_EXEMPT">>
    THEN (IF paid_date # NULL THEN paid_date ELSE today)
    ELSE IF status = <<"STATUS_PAID">> /\ paid_date # NULL THEN paid_date
    ELSE NULL

\* paid date of a punishment row: read from the raw penatly_paid / penalty_paid cell
punishment_paid_date(row) ==
    LET raw == raw_row(row)
        paid_date_str ==
            IF "penatly_paid" \in DOMAIN raw /\ NonBlank(raw["penatly_paid"])
            THEN raw["penatly_paid"]
            ELSE IF "penalty_paid" \in DOMAIN raw /\ NonBlank(raw["penalty_paid"])
            THEN raw["penalty_paid"]
            ELSE <<>>
        parsed == strptime(paid_date_str, DMY)
    IN  IF paid_date_str # <<>> /\ parsed # ValueError THEN parsed ELSE NULL

\* paid date of a due row: user_paid status and user_payment_date of the fixed row
due_paid_date(row, today) ==
    LET fr == fixed_row("dues", row)
        status == Get(fr, "user_paid", <<>>)
        payment_date == Get(fr, "user_payment_date", <<>>)
        parsed == strptime(payment_date, YMD)
        paid_date == IF payment_date # <<>> /\ parsed # ValueError THEN parsed ELSE NULL
    IN  convert_payment_status(status, paid_date, today)

\* the row makes convert_payment_status call datetime.now()
reads_clock(file_type, row) ==
    /\ file_type = "dues"
    /\ Get(fixed_row("dues", row), "user_paid", <<>>) = <<"STATUS_EXEMPT">>
    /\ due_paid_date(row, NULL) = NULL

\* the amount with the ValueError of float() let through
amount_of_unguarded(fr) ==
    float(Get(fr, "amount", Get(fr, "transaction_amount", <<"0">>)))

\* "Handle amount conversion": float(cell) / 100, or 0.0 when float() raises
\* ValueError.  An amount is kept in hundredths, so that the division by 100
\* shows as the unit: 1050 stands for 10.5.
amount_of(fr) ==
    LET cents == float(Get(fr, "amount", Get(fr, "transaction_amount", <<"0">>)))
    IN  IF cents = ValueError THEN 0 ELSE cents

\* the default currency, a text of three characters
EUR == <<"E", "U", "R">>

\* fixed_row.get('currency', fixed_row.get('transaction_currency', 'EUR'))
currency_of(fr) == Get(fr, "currency", Get(fr, "transaction_currency", EUR))

\* The body of the row loop up to the identity lookups: ok = FALSE when the row
\* raises (missing column, unparsable team_id or created date).
transform_row(file_type, row, today) ==
    LET fr == fixed_row(file_type, row)
        tx == file_type = "transactions"
        team_ok == /\ "team_id" \in DOMAIN fr
                   /\ int(fr["team_id"]) # ValueError
                   /\ "team_name" \in DOMAIN fr
        subject == Get(fr, "transaction_subject", <<>>)
        extracted == extract_user_from_subject(subject)
        created_key == IF tx THEN "transaction_date" ELSE "created"
        created_ok == /\ created_key \in DOMAIN fr
                      /\ strptime(fr[created_key], DMY) # ValueError
        user_ok == tx \/ "user" \in DOMAIN fr
    IN  IF ~(team_ok /\ created_ok /\ user_ok)
        THEN [ok |-> FALSE]
        ELSE [ok |-> TRUE,
              team_id |-> int(fr["team_id"]),
              team_name |-> fr["team_name"],
              user_name |-> IF tx
                            THEN (IF extracted = <<>> THEN <<"SYSTEM">> ELSE extracted)
                            ELSE fr["user"],
              created_date |-> strptime(fr[created_key], DMY),
              reason |-> IF tx THEN Get(fr, "transaction_reason", subject)
                         ELSE Get(fr, "reason", <<>>),
              amount |-> amount_of(fr),
              currency |-> currency_of(fr),
              subject |-> Get(fr, "subject", Get(fr, "transaction_subject", <<>>)),
              paid_date |-> IF file_type = "punishments" THEN punishment_paid_date(row)
                            ELSE IF file_type = "dues" THEN due_paid_date(row, today)
                            ELSE NULL,
              user_paid |-> IF file_type = "dues"
                            THEN Get(fr, "user_paid", <<"STATUS_UNPAID">>)
                            ELSE <<>>]

(* ---- the store ---- *)

\* A ledger row is the record of the columns the INSERT statement writes
\* (user_id, team_id, created_date, reason, amount, currency, subject, paid_date,
\* user_paid; archived and search_params are left out) and, as history, the
\* source row it was made from (raw), the user name it referenced (name), and
\* the run and the file that inserted it.

EmptyDb ==
    [users |-> {}, teams |-> {}, seq |-> 0,
     punishments |-> <<>>, dues |-> <<>>, transactions |-> <<>>]

\* a DELETE that removes nothing
truncate_nothing(d, table_name) == d

\* truncate_table: DELETE FROM table_name
truncate_table(d, table_name) == [d EXCEPT ![table_name] = <<>>]

\* users_cache as loaded at run start: a later row of a name replaces an earlier one
load_users_cache(d) ==
    [n \in {u.user_name : u \in d.users} |->
        CHOOSE i \in {u.user_id : u \in {v \in d.users : v.user_name = n}} :
            \A u \in d.users : u.user_name = n => u.user_id <= i]

\* teams_map as loaded at run start; only its keys are ever read
load_teams_map(d) == {t.team_id : t \in d.teams}

\* INSERT OR REPLACE INTO teams for every row
ensure_team_replacing(d, tmap, team_id, team_name) ==
    [d EXCEPT !.teams = {t \in @ : t.team_id # team_id}
                            \cup {[team_id |-> team_id, team_name |-> team_name]}]

\* the team is noted in teams_map and not inserted
ensure_team_map_only(d, tmap, team_id, team_name) == d

\* Ensure team exists: INSERT OR IGNORE INTO teams
ensure_team(d, tmap, team_id, team_name) ==
    IF team_id \in tmap THEN d
    ELSE IF \E t \in d.teams : t.team_id = team_id THEN d
    ELSE [d EXCEPT !.teams = @ \cup {[team_id |-> team_id, team_name |-> team_name]}]

\* a new users row for every ledger row
resolve_user_always_insert(d, cache, user_name, team_id) ==
    LET id == d.seq + 1
    IN  [db |-> [d EXCEPT !.seq = id,
                          !.users = @ \cup {[user_id |-> id, user_name |-> user_name,
                                             team_id |-> team_id]}],
         cache |-> (user_name :> id) @@ cache,
         user_id |-> id]

\* the cache is only read: a name it lacks is inserted and not remembered
resolve_user_no_memo(d, cache, user_name, team_id) ==
    IF user_name \in DOMAIN cache
    THEN [db |-> d, cache |-> cache, user_id |-> cache[user_name]]
    ELSE LET id == d.seq + 1
         IN  [db |-> [d EXCEPT !.seq = id,
                               !.users = @ \cup {[user_id |-> id, user_name |-> user_name,
                                                  team_id |-> team_id]}],
              cache |-> cache,
              user_id |-> id]

\* User creation/lookup: cache, then SELECT by name, then INSERT with a new id
resolve_user(d, cache, user_name, team_id) ==
    IF user_name \in DOMAIN cache
    THEN [db |-> d, cache |-> cache, user_id |-> cache[user_name]]
    ELSE IF \E u \in d.users : u.user_name = user_name
    THEN LET existing == CHOOSE i \in {u.user_id : u \in d.users} :
                            /\ \E u \in d.users : u.user_id = i /\ u.user_name = user_name
                            /\ \A u \in d.users : u.user_name = user_name => i <= u.user_id
         IN  [db |-> d, cache |-> (user_name :> existing) @@ cache, user_id |-> existing]
    ELSE LET id == d.seq + 1
         IN  [db |-> [d EXCEPT !.seq = id,
                               !.users = @ \cup {[user_id |-> id, user_name |-> user_name,
                                                  team_id |-> team_id]}],
              cache |-> (user_name :> id) @@ cache,
              user_id |-> id]

\* the tuple appended to batch_data for a transformed row t
ledger_entry(t, user_id, row, run, file) ==
    [user_id |-> user_id, team_id |-> t.team_id,
     created_date |-> t.created_date,
     reason |-> t.reason, amount |-> t.amount, currency |-> t.currency,
     subject |-> t.subject,
     paid_date |-> t.paid_date,
     user_paid |-> t.user_paid,
     raw |-> row, name |-> t.user_name,
     run |-> run, file |-> file]

\* a schema that checks the status of a due only
violates_check_status_only(file_type, t) ==
    /\ file_type = "dues"
    /\ t.user_paid \notin {<<"STATUS_PAID">>, <<"STATUS_UNPAID">>, <<"STATUS_EXEMPT">>}

\* the CHECK constraints of the ledger tables that an inserted row can violate
violates_check(file_type, t) ==
    \/ /\ file_type \in {"punishments", "dues"}
       /\ t.paid_date # NULL
       /\ t.paid_date < t.created_date
    \/ /\ file_type \in {"punishments", "dues"}
       /\ t.amount < 0
    \/ Len(t.currency) # 3
    \/ /\ file_type = "dues"
       /\ t.user_paid \notin {<<"STATUS_PAID">>, <<"STATUS_UNPAID">>, <<"STATUS_EXEMPT">>}

\* every batch inserted with the punishments statement
process_batch_punishments(d, file_type, batch) ==
    [db |-> [d EXCEPT !.punishments = @ \o batch], ok |-> TRUE]

\* process_batch: executemany inserts the rows in order and raises at the first
\* row a constraint rejects
process_batch(d, file_type, batch) ==
    LET bad == {i \in 1..Len(batch) : violates_check(file_type, batch[i])}
        n == IF bad = {} THEN Len(batch)
             ELSE (CHOOSE i \in bad : \A j \in bad : i <= j) - 1
    IN  [db |-> [d EXCEPT ![file_type] = @ \o SubSeq(batch, 1, n)],
         ok |-> bad = {}]

(* ---- input rows the export tool writes ---- *)

Cell(s) == IF s = "" THEN <<>> ELSE <<s>>

PunishmentRow(team, team_name, created, user, paid) ==
    << <<"team_id", Cell(team)>>, <<"team_name", Cell(team_name)>>,
       <<"penalty_created", Cell(created)>>, <<"penalty_user", Cell(user)>>,
       <<"penalty_paid", Cell(paid)>> >>

DueRow(team, team_name, created, user, status, payment_date) ==
    << <<"team_id", Cell(team)>>, <<"team_name", Cell(team_name)>>,
       <<"due_created", Cell(created)>>, <<"due_user", Cell(user)>>,
       <<"user_paid", Cell(status)>>, <<"user_payment_date", Cell(payment_date)>> >>

TransactionRow(team, team_name, date_header, date, subject) ==
    << <<"team_id", Cell(team)>>, <<"team_name", Cell(team_name)>>,
       <<date_header, Cell(date)>>, <<"transaction_subject", subject>> >>

RowPool ==
    [punishments |->
        {PunishmentRow("1", "Erste", "01-01-2024", "Alice", ""),
         PunishmentRow("2", "Zweite", "02-01-2024", "Bob", "01-01-2024"),
         PunishmentRow("1", "Erste", "2024/01/01", "Alice", "")},
     dues |->
        {DueRow("1", "Erste", "01-01-2024", "Alice", "STATUS_EXEMPT", ""),
         DueRow("2", "Zweite", "02-01-2024", "Bob", "STATUS_EXEMPT", ""),
         DueRow("2", "Zweite", "", "Bob", "STATUS_PAID", "2024-01-02")},
     transactions |->
        {TransactionRow("2", "Zweite", "transaction_date", "01-01-2024",
                        <<"Strafe", ": ", "Bob", " (", "Bier", ")">>),
         TransactionRow("2", "Andere", "transaction_date", "02-01-2024",
                        <<"Einzahlung">>),
         TransactionRow("1", "Erste", "transaction_created", "01-01-2024",
                        <<"Strafe", ": ", "Alice", " (", "Bier", ")">>)}]

\* transform_row and reads_clock of every input row, evaluated once
Transformed ==
    [k \in Kinds |-> [row \in RowPool[k] |->
        [today \in 0..MaxDay |-> transform_row(k, row, today)]]]

ReadsClock == [k \in Kinds |-> [row \in RowPool[k] |-> reads_clock(k, row)]]

(* ---- state ---- *)

VARIABLES
    fs,           \* the import directory: a set of [name, id] entries
    dropped,      \* number of export files written so far
    clock,        \* wall clock as last read: [day, sec]
    committed,    \* the store as committed
    db,           \* the store as the connection sees it
    inTx,         \* the connection is inside a transaction
    pc,           \* position of import_data
    runs,         \* number of runs started
    todo,         \* files of files_to_process not yet iterated
    cur,          \* the (file_path, file_type) of the loop
    rowsRead,     \* data rows the reader has yielded for the current file
    batch_data,
    users_cache,
    teams_map,
    commits,      \* history: commits issued by the current run
    truncs,       \* history: truncate_table calls of the current run, per table
    hist,         \* history: files of the current run that were fully processed
    preRun,       \* history: the store when the current run started
    cli,          \* how run_import called import_data: "none" when it did not
    csv_file_path, \* the file run_import passed to import_data
    exit_code,    \* exit status of run_import, NULL while it has not exited
    probe,        \* the input of a function under study
    result,       \* its outcome
    overlap       \* two runs of import_data under way at once, each with a connection

vars == <<fs, dropped, clock, committed, db, inTx, pc, runs, todo, cur,
          rowsRead, batch_data, users_cache, teams_map, commits, truncs, hist, preRun,
          cli, csv_file_path, exit_code, probe, result, overlap>>

\* the variables of run_import and of the functions studied on their own
aux == <<cli, csv_file_path, exit_code, probe, result, overlap>>

NoFile == [name |-> <<"", "", 0, 0>>, id |-> 0, content |-> ""]
NoCache == [n \in {} |-> 0]
NoProbe == [of |-> "nothing"]
NoOverlap == [of |-> "nothing"]

\* file names: cashbox-{kind}-{timestamp}.csv, YYYYMMDD_{kind}.csv and
\* YYYYMMDD_HHMMSS_{kind}.csv
CashboxName(kind, n) == <<"cashbox", kind, n, 0>>
DatedName(kind, day) == <<"dated", kind, day, 0>>
StampedName(kind, day, sec) == <<"stamped", kind, day, sec>>

\* os.path.exists
exists(f, name) == \E e \in f : e.name = name

\* a pattern that also matches the names of archived files
get_files_to_import_unanchored(f) ==
    {e \in f : e.name[1] \in {"cashbox", "dated", "stamped"}}

\* get_files_to_import: the files whose name matches the cashbox pattern
get_files_to_import(f) == {e \in f : e.name[1] = "cashbox"}

\* no file type: the None of detect_file_type
None == "None"

\* h.startswith(prefix), for the headers that occur in the model
HeadersWith ==
    ("penalty_" :> {"penalty_created", "penalty_user", "penalty_reason", "penalty_name",
                    "penalty_archived", "penalty_paid", "penalty_amount",
                    "penalty_currency", "penalty_subject"} @@
     "penatly_" :> {"penatly_created", "penatly_user", "penatly_reason",
                    "penatly_archived", "penatly_paid", "penatly_amount",
                    "penatly_currency", "penatly_subject"} @@
     "due_" :> {"due_created", "due_user", "due_reason", "due_name", "due_archived",
                "due_paid", "due_amount", "due_currency", "due_subject"} @@
     "transaction_" :> {"transaction_created", "transaction_user", "transaction_reason",
                        "transaction_name", "transaction_amount", "transaction_currency",
                        "transaction_subject", "transaction_date"})

startswith(h, prefix) == h \in HeadersWith[prefix]

any_startswith(headers, prefix) ==
    \E i \in 1..Len(headers) : startswith(headers[i], prefix)

\* due_ looked for before the punishment prefixes
detect_file_type_due_first(readable, headers) ==
    IF ~readable \/ headers = <<>> THEN None
    ELSE IF any_startswith(headers, "due_") THEN "dues"
    ELSE IF any_startswith(headers, "penatly_") THEN "punishments"
    ELSE IF any_startswith(headers, "penalty_") THEN "punishments"
    ELSE IF any_startswith(headers, "transaction_") THEN "transactions"
    ELSE None

\* what a file holds: the export of a kind, something else with a header line
\* (notes), or bytes that do not decode (binary)
FileContent ==
    [punishments |-> [readable |-> TRUE,
                      headers |-> <<"team_id", "team_name", "penalty_created",
                                    "penalty_user", "penalty_paid">>],
     dues |-> [readable |-> TRUE,
               headers |-> <<"team_id", "team_name", "due_created", "due_user",
                             "user_paid", "user_payment_date">>],
     transactions |-> [readable |-> TRUE,
                       headers |-> <<"team_id", "team_name", "transaction_date",
                                     "transaction_subject">>],
     notes |-> [readable |-> TRUE, headers |-> <<"id", "name">>],
     binary |-> [readable |-> FALSE, headers |-> <<>>]]

\* detect_file_type: the kind of a file by its header line.  readable is FALSE
\* when opening or decoding the file raises, headers is <<>> for an empty file.
detect_file_type(readable, headers) ==
    IF ~readable \/ headers = <<>> THEN None
    ELSE IF any_startswith(headers, "penatly_") THEN "punishments"
    ELSE IF any_startswith(headers, "penalty_") THEN "punishments"
    ELSE IF any_startswith(headers, "due_") THEN "dues"
    ELSE IF any_startswith(headers, "transaction_") THEN "transactions"
    ELSE None

\* a file without a kind in its name taken for a file of transactions
file_type_of_defaulting(e) ==
    IF e.name[1] = "cashbox" THEN e.name[2] ELSE "transactions"

\* the file type import_data pairs with a file: the kind in a cashbox name, else
\* the kind detect_file_type finds in the file
file_type_of(e) ==
    IF e.name[1] = "cashbox" THEN e.name[2]
    ELSE detect_file_type(FileContent[e.content].readable, FileContent[e.content].headers)

Init ==
    /\ fs = {}
    /\ dropped = 0
    /\ clock = [day |-> 0, sec |-> 0]
    /\ committed = EmptyDb
    /\ db = EmptyDb
    /\ inTx = FALSE
    /\ pc = "idle"
    /\ runs = 0
    /\ todo = {}
    /\ cur = NoFile
    /\ rowsRead = <<>>
    /\ batch_data = <<>>
    /\ users_cache = NoCache
    /\ teams_map = {}
    /\ commits = 0
    /\ truncs = [k \in Kinds |-> 0]
    /\ hist = <<>>
    /\ preRun = EmptyDb
    /\ cli = "none"
    /\ csv_file_path = NoFile
    /\ exit_code = NULL
    /\ overlap = NoOverlap
    /\ probe = NoProbe
    /\ result = NoProbe

(* ---- environment ---- *)

\* The export tool writes a new cashbox file into the import directory.  A run
\* lists the directory once, when its file loop starts, so a file written while
\* a run is under way appears here as written before or after the run.
DropFile ==
    /\ dropped < MaxFiles
    /\ pc \in {"idle", "done", "aborted"}
    /\ \E k \in Kinds :
         fs' = fs \cup {[name |-> CashboxName(k, dropped + 1), id |-> dropped + 1,
                          content |-> k]}
    /\ dropped' = dropped + 1
    /\ UNCHANGED <<clock, committed, db, inTx, pc, runs, todo, cur, rowsRead,
                   batch_data, users_cache, teams_map, commits, truncs, hist, preRun,
                   aux>>

\* datetime.now(): a time not earlier than the one read last
Times == [day : 0..MaxDay, sec : 0..MaxSec]
Later(c) == {t \in Times : t.day > c.day \/ (t.day = c.day /\ t.sec >= c.sec)}

(* ---- import_data ---- *)

\* a handler that closes the connection with the work done so far committed
Fail_committing(d) ==
    /\ db' = d
    /\ committed' = d
    /\ commits' = commits + 1
    /\ inTx' = FALSE
    /\ pc' = "aborted"
    /\ todo' = {}
    /\ batch_data' = <<>>
    /\ users_cache' = NoCache
    /\ teams_map' = {}
    /\ exit_code' = (IF cli = "none" THEN exit_code ELSE 1)

\* The except clauses and the finally of import_data: an exception raised while
\* the connection sees store d rolls the transaction back and ends the run.
Fail(d) ==
    /\ db' = committed
    /\ committed' = committed
    /\ commits' = commits
    /\ inTx' = FALSE
    /\ pc' = "aborted"
    /\ todo' = {}
    /\ batch_data' = <<>>
    /\ users_cache' = NoCache
    /\ teams_map' = {}
    /\ exit_code' = (IF cli = "none" THEN exit_code ELSE 1)

\* a connection left in autocommit mode
begin_transaction_missing(in_tx) == in_tx

\* cursor.execute("BEGIN TRANSACTION")
begin_transaction(in_tx) == TRUE

\* import_data up to the file loop: the files to process, the connection,
\* BEGIN TRANSACTION and the two caches.  An explicit path is a file whose name
\* carries its kind; without a path the files are those get_files_to_import
\* finds in the directory.
StartRunOn(files_to_process) ==
    /\ pc \in {"idle", "done", "aborted"}
    /\ runs < MaxRuns
    /\ todo' = files_to_process
    /\ runs' = runs + 1
    /\ inTx' = begin_transaction(inTx)
    /\ users_cache' = load_users_cache(db)
    /\ teams_map' = load_teams_map(db)
    /\ pc' = "files"
    /\ cur' = NoFile
    /\ rowsRead' = <<>>
    /\ batch_data' = <<>>
    /\ commits' = 0
    /\ truncs' = [k \in Kinds |-> 0]
    /\ hist' = <<>>
    /\ preRun' = committed
    /\ UNCHANGED <<fs, dropped, clock, committed, db, aux>>

\* import_data() without a path: the files of the directory
ScanRun == StartRunOn(get_files_to_import(fs))

StartRun ==
    \/ ScanRun
    \/ \E e \in get_files_to_import(fs) : StartRunOn({e})

\* truncation only for the first file of a kind
truncate_if_first(d, truncated, file_type) ==
    IF truncated[file_type] = 0 THEN truncate_table(d, file_type) ELSE d

\* "Truncate the corresponding table before importing new data": the call made
\* for every file, whatever the run truncated before
truncate_for_file(d, truncated, file_type) == truncate_table(d, file_type)

\* One iteration of the file loop begins: truncate the table of the file's
\* kind, open the file, start with an empty batch.
BeginFile ==
    /\ pc = "files"
    /\ \E e \in todo :
         /\ cur' = e
         /\ todo' = todo \ {e}
         /\ db' = truncate_for_file(db, truncs, file_type_of(e))
         /\ truncs' = [truncs EXCEPT ![file_type_of(e)] = @ + 1]
    /\ rowsRead' = <<>>
    /\ batch_data' = <<>>
    /\ pc' = "rows"
    /\ UNCHANGED <<fs, dropped, clock, committed, inTx, runs, users_cache, teams_map,
                   commits, hist, preRun, aux>>

\* a batch that is never taken for full
batch_full_never(batch) == FALSE

\* len(batch_data) >= batch_size
batch_full(batch) == Len(batch) >= batch_size

\* One iteration of the row loop: the reader yields a row, which is transformed,
\* resolved against teams and users, appended to the batch, and the batch is
\* inserted when it is full.  Any exception aborts the run.  The file has at
\* most limit rows.
ProcessRowUpTo(limit) ==
    /\ pc = "rows"
    /\ Len(rowsRead) < limit
    /\ \E row \in RowPool[file_type_of(cur)] :
      \E now \in IF ReadsClock[file_type_of(cur)][row] THEN Later(clock) ELSE {clock} :
         LET file_type == file_type_of(cur)
             t == Transformed[file_type][row][now.day]
         IN  /\ rowsRead' = Append(rowsRead, row)
             /\ clock' = now
             /\ IF ~t.ok
                THEN Fail(db)
                ELSE LET d1 == ensure_team(db, teams_map, t.team_id, t.team_name)
                         r == resolve_user(d1, users_cache, t.user_name, t.team_id)
                         entry == ledger_entry(t, r.user_id, row, runs, cur.id)
                         batch1 == Append(batch_data, entry)
                         res == process_batch(r.db, file_type, batch1)
                     IN  IF batch_full(batch1)
                         THEN IF res.ok
                              THEN /\ db' = res.db
                                   /\ batch_data' = <<>>
                                   /\ users_cache' = r.cache
                                   /\ teams_map' = teams_map \cup {t.team_id}
                                   /\ UNCHANGED <<committed, commits, inTx, pc, todo,
                                                  exit_code>>
                              ELSE Fail(res.db)
                         ELSE /\ db' = r.db
                              /\ batch_data' = batch1
                              /\ users_cache' = r.cache
                              /\ teams_map' = teams_map \cup {t.team_id}
                              /\ UNCHANGED <<committed, commits, inTx, pc, todo,
                                             exit_code>>
    /\ UNCHANGED <<fs, dropped, runs, cur, truncs, hist, preRun, cli, csv_file_path, probe, result, overlap>>

ProcessRow == ProcessRowUpTo(MaxRows)

\* the rows left in the batch are dropped
flush_nothing(d, file_type, batch) == [db |-> d, ok |-> TRUE]

\* "Process any remaining rows in the batch"
flush_remaining(d, file_type, batch) == process_batch(d, file_type, batch)

\* The reader is exhausted: the remaining rows of the batch are inserted and the
\* file is closed.
EndOfFile ==
    /\ pc = "rows"
    /\ LET res == flush_remaining(db, file_type_of(cur), batch_data)
       IN  IF res.ok
           THEN /\ db' = res.db
                /\ pc' = "archive"
                /\ UNCHANGED <<committed, commits, inTx, todo, batch_data,
                               users_cache, teams_map, exit_code>>
           ELSE Fail(res.db)
    /\ UNCHANGED <<fs, dropped, clock, runs, cur, rowsRead, truncs, hist, preRun,
                   cli, csv_file_path, probe, result, overlap>>

\* renaming put off
os_rename_deferred(f, src, dst) == f

\* os.rename(src, dst): dst is replaced when it exists
os_rename(f, src, dst) ==
    {e \in f : e.name # src.name /\ e.name # dst} \cup {[name |-> dst, id |-> src.id, content |-> src.content]}

\* the new name of a processed file: the dated name, or the time-stamped one
\* when the dated name is taken
new_filepath(f, file_type, now) ==
    IF exists(f, DatedName(file_type, now.day))
    THEN StampedName(file_type, now.day, now.sec)
    ELSE DatedName(file_type, now.day)

\* a commit after every file
after_file_commit(c, d, n) == [committed |-> d, commits |-> n + 1]

\* What the end of a file iteration does to the committed store c and the number
\* n of commits, the connection seeing d: nothing, there is no commit per file.
after_file(c, d, n) == [committed |-> c, commits |-> n]

\* the source rows the rows of a table were made from
Sources(table) == [i \in 1..Len(table) |-> table[i].raw]

\* After the rows of a file are written the file is renamed, under the date and
\* time read from the clock.
ArchiveFile ==
    /\ pc = "archive"
    /\ \E now \in Later(clock) :
         /\ clock' = now
         /\ fs' = os_rename(fs, cur, new_filepath(fs, file_type_of(cur), now))
    /\ hist' = Append(hist, [id |-> cur.id, type |-> file_type_of(cur),
                             n |-> Len(rowsRead),
                             same |-> rowsRead = Sources(preRun[file_type_of(cur)])])
    /\ committed' = after_file(committed, db, commits).committed
    /\ commits' = after_file(committed, db, commits).commits
    /\ pc' = "files"
    /\ UNCHANGED <<dropped, db, inTx, runs, todo, cur,
                   rowsRead, batch_data, users_cache, teams_map, truncs, preRun, aux>>

\* The file loop is over: commit and close the connection.
Commit ==
    /\ pc = "files"
    /\ todo = {}
    /\ committed' = db
    /\ inTx' = FALSE
    /\ commits' = commits + 1
    /\ pc' = "done"
    /\ batch_data' = <<>>
    /\ users_cache' = NoCache
    /\ teams_map' = {}
    /\ exit_code' = (IF cli = "none" THEN exit_code ELSE 0)
    /\ UNCHANGED <<fs, dropped, clock, db, runs, todo, cur, rowsRead, truncs, hist,
                   preRun, cli, csv_file_path, probe, result, overlap>>

Next ==
    \/ DropFile
    \/ StartRun
    \/ BeginFile
    \/ ProcessRow
    \/ EndOfFile
    \/ ArchiveFile
    \/ Commit

Spec == Init /\ [][Next]_vars

\* The directory on a day on which an earlier import has left its archive: the
\* state Spec reaches by importing an empty punishments file on day 0, with the
\* counters of the bounds reset.
InitArchive ==
    /\ fs = {[name |-> DatedName("punishments", 0), id |-> 0, content |-> "punishments"]}
    /\ dropped = 0
    /\ clock = [day |-> 0, sec |-> 0]
    /\ committed = EmptyDb
    /\ db = EmptyDb
    /\ inTx = FALSE
    /\ pc = "idle"
    /\ runs = 0
    /\ todo = {}
    /\ cur = NoFile
    /\ rowsRead = <<>>
    /\ batch_data = <<>>
    /\ users_cache = NoCache
    /\ teams_map = {}
    /\ commits = 0
    /\ truncs = [k \in Kinds |-> 0]
    /\ hist = <<>>
    /\ preRun = EmptyDb
    /\ cli = "none"
    /\ csv_file_path = NoFile
    /\ exit_code = NULL
    /\ overlap = NoOverlap
    /\ probe = NoProbe
    /\ result = NoProbe

SpecArchive == InitArchive /\ [][Next]_vars

(* ---- directories ---- *)

\* the shapes of the files of a directory: a name and a content
FileShapes ==
    {[class |-> "cashbox", kind |-> k, content |-> k] : k \in Kinds}
        \cup [class : {"cashbox_other", "other"}, kind : {""},
              content : {"punishments", "notes", "binary"}]

\* the directories of up to MaxFiles files
Directories ==
    UNION {{{[name |-> <<shape[i].class, shape[i].kind, i, 0>>, id |-> i,
              content |-> shape[i].content] : i \in 1..n}
            : shape \in [1..n -> FileShapes]} : n \in 0..MaxFiles}

(* ---- directory scans only ---- *)

\* a directory of up to MaxFiles files, cashbox files and others
InitScan ==
    /\ fs \in Directories
    /\ dropped = Cardinality(fs)
    /\ clock = [day |-> 0, sec |-> 0]
    /\ committed = EmptyDb
    /\ db = EmptyDb
    /\ inTx = FALSE
    /\ pc = "idle"
    /\ runs = 0
    /\ todo = {}
    /\ cur = NoFile
    /\ rowsRead = <<>>
    /\ batch_data = <<>>
    /\ users_cache = NoCache
    /\ teams_map = {}
    /\ commits = 0
    /\ truncs = [k \in Kinds |-> 0]
    /\ hist = <<>>
    /\ preRun = EmptyDb
    /\ cli = "none"
    /\ csv_file_path = NoFile
    /\ exit_code = NULL
    /\ overlap = NoOverlap
    /\ probe = NoProbe
    /\ result = NoProbe

\* runs of import_data() one after the other, the directory left alone in between
NextScan ==
    \/ ScanRun
    \/ BeginFile
    \/ ProcessRow
    \/ EndOfFile
    \/ ArchiveFile
    \/ Commit

SpecScan == InitScan /\ [][NextScan]_vars

(* ---- files longer than a batch ---- *)

\* a directory of cashbox files, to be imported in one run
InitBatch ==
    /\ fs \in {d \in Directories : \A e \in d : e.name[1] = "cashbox"}
    /\ dropped = Cardinality(fs)
    /\ clock = [day |-> 0, sec |-> 0]
    /\ committed = EmptyDb
    /\ db = EmptyDb
    /\ inTx = FALSE
    /\ pc = "idle"
    /\ runs = 0
    /\ todo = {}
    /\ cur = NoFile
    /\ rowsRead = <<>>
    /\ batch_data = <<>>
    /\ users_cache = NoCache
    /\ teams_map = {}
    /\ commits = 0
    /\ truncs = [k \in Kinds |-> 0]
    /\ hist = <<>>
    /\ preRun = EmptyDb
    /\ cli = "none"
    /\ csv_file_path = NoFile
    /\ exit_code = NULL
    /\ overlap = NoOverlap
    /\ probe = NoProbe
    /\ result = NoProbe

\* the row loop on a file that may hold one row more than a batch
ProcessRowOfLongFile == ProcessRowUpTo(batch_size + 1)

NextBatch ==
    \/ StartRun
    \/ BeginFile
    \/ ProcessRowOfLongFile
    \/ EndOfFile
    \/ ArchiveFile
    \/ Commit

SpecBatch == InitBatch /\ [][NextBatch]_vars

(* ---- run_import ---- *)

\* the cashbox files of the directory, every file of which is a .csv file: the
\* names that start with cashbox-
cashbox_files(f) == {e \in f : e.name[1] \in {"cashbox", "cashbox_other"}}

\* the cashbox file modified last; files are numbered in the order written
latest_file(f) == CHOOSE e \in cashbox_files(f) : \A x \in cashbox_files(f) : x.id <= e.id

\* import_data(file_path) up to the file loop: the file is skipped when it has
\* no file type, else it is the one file to process
ImportFile(e, how) ==
    /\ pc \in {"idle", "done", "aborted", "skipped", "exited"}
    /\ runs < MaxRuns
    /\ runs' = runs + 1
    /\ cli' = how
    /\ csv_file_path' = e
    /\ cur' = NoFile
    /\ rowsRead' = <<>>
    /\ batch_data' = <<>>
    /\ commits' = 0
    /\ truncs' = [k \in Kinds |-> 0]
    /\ hist' = <<>>
    /\ preRun' = committed
    /\ IF file_type_of(e) = None
       THEN /\ pc' = "skipped"
            /\ exit_code' = 0
            /\ todo' = {}
            /\ UNCHANGED <<inTx, users_cache, teams_map>>
       ELSE /\ pc' = "files"
            /\ exit_code' = NULL
            /\ todo' = {e}
            /\ inTx' = begin_transaction(inTx)
            /\ users_cache' = load_users_cache(db)
            /\ teams_map' = load_teams_map(db)
    /\ UNCHANGED <<fs, dropped, clock, committed, db, probe, result, overlap>>

\* run_import with the path of an existing file as its argument
RunImportPath == \E e \in fs : ImportFile(e, "path")

\* run_import without an argument, the directory holding a cashbox file
RunImportLatest == cashbox_files(fs) # {} /\ ImportFile(latest_file(fs), "latest")

\* run_import without an argument, the directory holding no cashbox file
RunImportNothing ==
    /\ pc \in {"idle", "done", "aborted", "skipped", "exited"}
    /\ runs < MaxRuns
    /\ cashbox_files(fs) = {}
    /\ runs' = runs + 1
    /\ cli' = "latest"
    /\ csv_file_path' = NoFile
    /\ exit_code' = 1
    /\ pc' = "exited"
    /\ commits' = 0
    /\ truncs' = [k \in Kinds |-> 0]
    /\ hist' = <<>>
    /\ preRun' = committed
    /\ UNCHANGED <<fs, dropped, clock, committed, db, inTx, todo, cur, rowsRead,
                   batch_data, users_cache, teams_map, probe, result, overlap>>

InitCli ==
    /\ fs \in Directories
    /\ dropped = Cardinality(fs)
    /\ clock = [day |-> 0, sec |-> 0]
    /\ committed = EmptyDb
    /\ db = EmptyDb
    /\ inTx = FALSE
    /\ pc = "idle"
    /\ runs = 0
    /\ todo = {}
    /\ cur = NoFile
    /\ rowsRead = <<>>
    /\ batch_data = <<>>
    /\ users_cache = NoCache
    /\ teams_map = {}
    /\ commits = 0
    /\ truncs = [k \in Kinds |-> 0]
    /\ hist = <<>>
    /\ preRun = EmptyDb
    /\ cli = "none"
    /\ csv_file_path = NoFile
    /\ exit_code = NULL
    /\ overlap = NoOverlap
    /\ probe = NoProbe
    /\ result = NoProbe

NextCli ==
    \/ RunImportPath
    \/ RunImportLatest
    \/ RunImportNothing
    \/ BeginFile
    \/ ProcessRow
    \/ EndOfFile
    \/ ArchiveFile
    \/ Commit

SpecCli == InitCli /\ [][NextCli]_vars

(* ---- functions studied on their own ---- *)

\* the importer at rest on an empty store and an empty directory
Idle ==
    /\ fs = {}
    /\ dropped = 0
    /\ clock = [day |-> 0, sec |-> 0]
    /\ committed = EmptyDb
    /\ db = EmptyDb
    /\ inTx = FALSE
    /\ pc = "idle"
    /\ runs = 0
    /\ todo = {}
    /\ cur = NoFile
    /\ rowsRead = <<>>
    /\ batch_data = <<>>
    /\ users_cache = NoCache
    /\ teams_map = {}
    /\ commits = 0
    /\ truncs = [k \in Kinds |-> 0]
    /\ hist = <<>>
    /\ preRun = EmptyDb
    /\ cli = "none"
    /\ csv_file_path = NoFile
    /\ exit_code = NULL
    /\ overlap = NoOverlap

importer == <<fs, dropped, clock, committed, db, inTx, pc, runs, todo, cur,
              rowsRead, batch_data, users_cache, teams_map, commits, truncs, hist,
              preRun, cli, csv_file_path, exit_code>>

SeqsUpTo(S, n) == UNION {[1..m -> S] : m \in 0..n}

\* headers a file may start with
HeaderVocabulary ==
    {"penalty_created", "penatly_user", "due_created", "transaction_amount",
     "team_id", "user_paid"}

HeaderLines ==
    [of : {"detect_file_type"}, readable : BOOLEAN,
     headers : SeqsUpTo(HeaderVocabulary, MaxHeaders)]

InitSniff == Idle /\ probe \in HeaderLines /\ result = NoProbe

\* detect_file_type is called on a file
DetectFileType ==
    /\ probe.of = "detect_file_type"
    /\ result = NoProbe
    /\ result' = [of |-> "detect_file_type",
                  file_type |-> detect_file_type(probe.readable, probe.headers)]
    /\ UNCHANGED <<importer, probe, overlap>>

SpecSniff == InitSniff /\ [][DetectFileType]_vars

\* The canonical columns of a row.  A row under study is given by the cell of
\* every column (data) and the header the file uses for it (alias, "" when the
\* file lacks the column).
Columns ==
    <<"team_id", "team_name", "created", "user", "reason", "amount", "currency",
      "paid_date", "user_paid", "subject">>

Present(pair) == pair[1] # ""

BuildRow(data, alias) ==
    SelectSeq([i \in 1..Len(Columns) |-> <<alias[Columns[i]], data[Columns[i]]>>],
              Present)

\* the headers of the alias table of a kind, column by column
Aliases ==
    [punishments |->
        [team_id : {"team_id"}, team_name : {"team_name"},
         created : {"penalty_created", "penatly_created"},
         user : {"penalty_user", "penatly_user", "username"},
         reason : {"penalty_reason", "penatly_reason", "penalty_name"},
         amount : {"penalty_amount", "penatly_amount"},
         currency : {"", "penalty_currency", "penatly_currency"},
         paid_date : {"penalty_paid", "penatly_paid", "user_payment_date"},
         user_paid : {""}, subject : {""}],
     dues |->
        [team_id : {"team_id"}, team_name : {"team_name"},
         created : {"due_created"},
         user : {"due_user", "username"},
         reason : {"due_reason", "due_name"},
         amount : {"due_amount"},
         currency : {"", "due_currency"},
         paid_date : {"due_paid", "user_payment_date"},
         user_paid : {"user_paid"}, subject : {""}],
     transactions |->
        [team_id : {"team_id"}, team_name : {"team_name"},
         created : {"transaction_date", "transaction_created"},
         user : {"", "transaction_user", "username"},
         reason : {"", "transaction_reason", "transaction_name"},
         amount : {"transaction_amount"},
         currency : {"", "transaction_currency"},
         paid_date : {""},
         user_paid : {""}, subject : {"transaction_subject"}]]

\* currency cells: a code, an empty cell, a cell of three spaces
Currencies == {<<"U", "S", "D">>, <<>>, <<" ", " ", " ">>}

\* the cells of the rows under study
Cells ==
    [punishments |->
        [team_id : {<<"1">>}, team_name : {<<"Erste">>},
         created : {<<"01-01-2024">>},
         user : {<<"Alice">>}, reason : {<<"Bier">>},
         amount : {<<"1050">>, <<"abc">>},
         currency : Currencies,
         paid_date : {<<>>, <<"02-01-2024">>, <<"gestern">>},
         user_paid : {<<>>}, subject : {<<>>}],
     dues |->
        [team_id : {<<"1">>}, team_name : {<<"Erste">>},
         created : {<<"01-01-2024">>, <<"02-01-2024">>},
         user : {<<"Alice">>}, reason : {<<"Beitrag">>},
         amount : {<<"1050">>, <<"abc">>},
         currency : Currencies,
         paid_date : {<<>>, <<"2024-01-02">>, <<"morgen">>},
         user_paid : {<<"STATUS_PAID">>, <<"STATUS_UNPAID">>, <<"STATUS_EXEMPT">>},
         subject : {<<>>}],
     transactions |->
        [team_id : {<<"1">>}, team_name : {<<"Erste">>},
         created : {<<"01-01-2024">>},
         user : {<<"Carol">>}, reason : {<<"Spende">>},
         amount : {<<"1050">>, <<"abc">>},
         currency : Currencies,
         paid_date : {<<>>},
         user_paid : {<<>>},
         subject : {<<"Strafe", ": ", "Bob", " (", "Bier", ")">>, <<"Einzahlung">>}]]

RowProbes ==
    UNION {[of : {"row"}, file_type : {k}, data : Cells[k], alias : Aliases[k],
            today : 0..MaxDay] : k \in Kinds}

\* The import of a file of the one data row into an empty store on day today:
\* the row as stored, or stored = FALSE when the run aborts.
import_row(file_type, row, today) ==
    LET t == transform_row(file_type, row, today)
    IN  IF ~t.ok THEN [of |-> "row", stored |-> FALSE]
        ELSE LET d1 == ensure_team(EmptyDb, {}, t.team_id, t.team_name)
                 r == resolve_user(d1, NoCache, t.user_name, t.team_id)
                 entry == ledger_entry(t, r.user_id, row, 1, 1)
                 res == process_batch(r.db, file_type, <<entry>>)
             IN  IF res.ok THEN [of |-> "row", stored |-> TRUE, row |-> entry]
                 ELSE [of |-> "row", stored |-> FALSE]

InitRow == Idle /\ probe \in RowProbes /\ result = NoProbe

\* a file of the one row is imported
ImportRow ==
    /\ probe.of = "row"
    /\ result = NoProbe
    /\ result' = import_row(probe.file_type, BuildRow(probe.data, probe.alias),
                            probe.today)
    /\ UNCHANGED <<importer, probe, overlap>>

SpecRow == InitRow /\ [][ImportRow]_vars

(* ---- merge_duplicate_users ---- *)

UserNames == {<<"Alice">>, <<"Bob">>}

\* the users tables with ids up to MaxUsers, names repeated or not
UsersTables ==
    {{[user_id |-> i, user_name |-> f[i], team_id |-> 1] :
            i \in {j \in 1..MaxUsers : f[j] # <<>>}} :
        f \in [1..MaxUsers -> UserNames \cup {<<>>}]}

\* a ledger row of kind k that references user uid
LedgerRow(k, uid) ==
    LET row == CHOOSE r \in RowPool[k] : Transformed[k][r][0].ok
    IN  ledger_entry(Transformed[k][row][0], uid, row, 0, 0)

\* the ledger tables of at most n rows that reference the users ids
LedgerOver(k, ids, n) ==
    {[i \in 1..Len(u) |-> LedgerRow(k, u[i])] : u \in SeqsUpTo(ids, n)}

\* the stores the merge is studied on
MergeStores ==
    UNION {[users : {u},
            teams : {{[team_id |-> 1, team_name |-> <<"Erste">>]}},
            seq : {MaxUsers},
            punishments : LedgerOver("punishments", {v.user_id : v \in u}, 2),
            dues : LedgerOver("dues", {v.user_id : v \in u}, 1),
            transactions : LedgerOver("transactions", {v.user_id : v \in u}, 1)] :
           u \in UsersTables}

\* GROUP BY user_name HAVING count > 1: the names of several users rows
duplicates(d) ==
    {n \in {u.user_name : u \in d.users} :
        Cardinality({u \in d.users : u.user_name = n}) > 1}

\* ids: the user ids of a name
ids_of(d, user_name) == {u.user_id : u \in {v \in d.users : v.user_name = user_name}}

\* the smaller id is kept
keep_id_smallest(d, user_name) ==
    CHOOSE i \in ids_of(d, user_name) : \A j \in ids_of(d, user_name) : i <= j

\* keep_id = max(ids)
keep_id(d, user_name) ==
    CHOOSE i \in ids_of(d, user_name) : \A j \in ids_of(d, user_name) : j <= i

\* UPDATE table SET user_id = keep_id WHERE user_id IN (remove_ids)
update_references(table, keep, remove_ids) ==
    [i \in 1..Len(table) |->
        IF table[i].user_id \in remove_ids
        THEN [table[i] EXCEPT !.user_id = keep]
        ELSE table[i]]

\* one iteration of the loop over the duplicates: the three updates and the
\* DELETE FROM users WHERE user_name = ? AND user_id != keep_id
merge_name(d, user_name) ==
    LET keep == keep_id(d, user_name)
        remove_ids == ids_of(d, user_name) \ {keep}
    IN  [d EXCEPT !.punishments = update_references(@, keep, remove_ids),
                  !.dues = update_references(@, keep, remove_ids),
                  !.transactions = update_references(@, keep, remove_ids),
                  !.users = {u \in @ : ~(u.user_name = user_name /\ u.user_id # keep)}]

InitMerge ==
    /\ fs = {}
    /\ dropped = 0
    /\ clock = [day |-> 0, sec |-> 0]
    /\ committed \in MergeStores
    /\ db = committed
    /\ inTx = FALSE
    /\ pc = "idle"
    /\ runs = 0
    /\ todo = {}
    /\ cur = NoFile
    /\ rowsRead = <<>>
    /\ batch_data = <<>>
    /\ users_cache = NoCache
    /\ teams_map = {}
    /\ commits = 0
    /\ truncs = [k \in Kinds |-> 0]
    /\ hist = <<>>
    /\ preRun = committed
    /\ cli = "none"
    /\ csv_file_path = NoFile
    /\ exit_code = NULL
    /\ overlap = NoOverlap
    /\ probe = NoProbe
    /\ result = NoProbe

\* BEGIN and the query for the duplicate names
MergeBegin ==
    /\ pc = "idle"
    /\ result = NoProbe
    /\ pc' = "merge"
    /\ inTx' = TRUE
    /\ result' = [of |-> "merge", duplicates |-> duplicates(db)]
    /\ UNCHANGED <<fs, dropped, clock, committed, db, runs, todo, cur, rowsRead,
                   batch_data, users_cache, teams_map, commits, truncs, hist, preRun,
                   cli, csv_file_path, exit_code, probe, overlap>>

\* one duplicate name is merged
MergeName ==
    /\ pc = "merge"
    /\ \E n \in result.duplicates :
         /\ db' = merge_name(db, n)
         /\ result' = [result EXCEPT !.duplicates = @ \ {n}]
    /\ UNCHANGED <<fs, dropped, clock, committed, inTx, pc, runs, todo, cur, rowsRead,
                   batch_data, users_cache, teams_map, commits, truncs, hist, preRun,
                   cli, csv_file_path, exit_code, probe, overlap>>

\* conn.commit() after the loop
MergeCommit ==
    /\ pc = "merge"
    /\ result.duplicates = {}
    /\ committed' = db
    /\ inTx' = FALSE
    /\ commits' = commits + 1
    /\ pc' = "merged"
    /\ UNCHANGED <<fs, dropped, clock, db, runs, todo, cur, rowsRead,
                   batch_data, users_cache, teams_map, truncs, hist, preRun,
                   aux>>

\* a statement raises: conn.rollback()
MergeFail ==
    /\ pc = "merge"
    /\ db' = committed
    /\ inTx' = FALSE
    /\ pc' = "merge_failed"
    /\ UNCHANGED <<fs, dropped, clock, committed, runs, todo, cur, rowsRead,
                   batch_data, users_cache, teams_map, commits, truncs, hist, preRun,
                   aux>>

NextMerge ==
    \/ MergeBegin
    \/ MergeName
    \/ MergeCommit
    \/ MergeFail

SpecMerge == InitMerge /\ [][NextMerge]_vars

(* ---- pay_penalty ---- *)

\* The store of the API: the penalties, the transactions in the order of their
\* creation, and the audit log.
UnpaidPenalty(id) ==
    [penalty_id |-> id, user_id |-> 1, amount |-> 1050, paid |-> FALSE, paid_at |-> NULL]

PaidPenalty(id) ==
    [penalty_id |-> id, user_id |-> 1, amount |-> 1050, paid |-> TRUE, paid_at |-> 0]

PenaltyStores ==
    {[penalties |-> {UnpaidPenalty(i) : i \in {j \in 1..MaxPenalties : f[j] = "unpaid"}}
                    \cup {PaidPenalty(i) : i \in {j \in 1..MaxPenalties : f[j] = "paid"}},
      transactions |-> <<>>,
      audit_log |-> <<>>] :
        f \in [1..MaxPenalties -> {"absent", "unpaid", "paid"}]}

PayProbes ==
    [of : {"pay"}, via : {"crud", "service"}, store : PenaltyStores,
     penalty_id : 1..MaxPenalties, now : 0..MaxDay]

\* what a query for a penalty returns when there is none
NoPenalty ==
    [penalty_id |-> NULL, user_id |-> NULL, amount |-> 0, paid |-> FALSE, paid_at |-> NULL]

\* get_penalty: the penalty of the id, or none
get_penalty(store, penalty_id) ==
    IF \E p \in store.penalties : p.penalty_id = penalty_id
    THEN CHOOSE p \in store.penalties : p.penalty_id = penalty_id
    ELSE NoPenalty

\* create_transaction: a transaction is added and committed
create_transaction(store, user_id, amount, description) ==
    [store EXCEPT !.transactions =
        Append(@, [user_id |-> user_id, amount |-> amount, description |-> description])]

\* Penalty.mark_as_paid
mark_as_paid(penalty, now) == [penalty EXCEPT !.paid = TRUE, !.paid_at = now]

\* mark_penalty_as_paid: the penalty is marked, a transaction record and an audit
\* log are added, and all is committed; a missing or paid penalty raises and the
\* session is rolled back
mark_penalty_as_paid(store, penalty_id, now) ==
    LET penalty == get_penalty(store, penalty_id)
    IN  IF penalty = NoPenalty
        THEN [store |-> store, raised |-> "ResourceNotFoundException"]
        ELSE IF penalty.paid
        THEN [store |-> store, raised |-> "ValueError"]
        ELSE [store |->
                [store EXCEPT
                    !.penalties = (@ \ {penalty}) \cup {mark_as_paid(penalty, now)},
                    !.transactions =
                        Append(@, [user_id |-> penalty.user_id,
                                   amount |-> penalty.amount,
                                   description |-> <<"Payment for penalty", penalty_id>>]),
                    !.audit_log =
                        Append(@, [action |-> "mark_penalty_paid",
                                   entity_id |-> penalty_id])],
              raised |-> None]

\* crud.pay_penalty
pay_penalty(store, penalty_id, now) ==
    LET db_penalty == get_penalty(store, penalty_id)
    IN  IF db_penalty = NoPenalty \/ db_penalty.paid
        THEN [of |-> "pay", store |-> store, raised |-> None, returned |-> None]
        ELSE LET s1 == create_transaction(store, db_penalty.user_id, db_penalty.amount,
                                          <<"Payment for penalty:", penalty_id>>)
                 m == mark_penalty_as_paid(s1, penalty_id, now)
             IN  [of |-> "pay", store |-> m.store, raised |-> m.raised,
                  returned |-> IF m.raised = None THEN "transaction" ELSE None]

\* FinancialService.pay_penalty
FinancialService_pay_penalty(store, penalty_id, now) ==
    LET penalty == get_penalty(store, penalty_id)
    IN  IF penalty = NoPenalty
        THEN [of |-> "pay", store |-> store, raised |-> "ResourceNotFoundException",
              returned |-> None]
        ELSE IF penalty.paid
        THEN [of |-> "pay", store |-> store, raised |-> "PaymentError", returned |-> None]
        ELSE LET s1 == create_transaction(store, penalty.user_id, penalty.amount,
                                          <<"Payment for penalty:", penalty_id>>)
                 m == mark_penalty_as_paid(s1, penalty_id, now)
             IN  [of |-> "pay", store |-> m.store, raised |-> m.raised,
                  returned |-> IF m.raised = None THEN "penalty, transaction" ELSE None]

InitPay == Idle /\ probe \in PayProbes /\ result = NoProbe

\* crud.pay_penalty is called
PayPenalty ==
    /\ probe.of = "pay"
    /\ probe.via = "crud"
    /\ result = NoProbe
    /\ result' = pay_penalty(probe.store, probe.penalty_id, probe.now)
    /\ UNCHANGED <<importer, probe, overlap>>

\* FinancialService.pay_penalty is called
ServicePayPenalty ==
    /\ probe.of = "pay"
    /\ probe.via = "service"
    /\ result = NoProbe
    /\ result' = FinancialService_pay_penalty(probe.store, probe.penalty_id, probe.now)
    /\ UNCHANGED <<importer, probe, overlap>>

NextPay == PayPenalty \/ ServicePayPenalty

SpecPay == InitPay /\ [][NextPay]_vars

(* ---- two runs at once ---- *)

\* Two calls of import_data are under way, each with its own connection to the
\* one database file and the one import directory.  A connection holds no lock,
\* a shared lock once it has read inside its transaction, or the reserved lock
\* once it has written; only one connection holds the reserved lock, and a
\* writer commits only when no other connection holds a lock.
Runs == {1, 2}

Other(p) == 3 - p

NoRun ==
    [pc |-> "idle", file_path |-> NoFile, file |-> NoFile, lock |-> "none",
     db |-> EmptyDb, rows |-> 0, error |-> None]

\* the variables of the importer studied one run at a time
single == <<dropped, clock, db, inTx, pc, runs, todo, cur, rowsRead, batch_data,
            users_cache, teams_map, commits, truncs, hist, preRun, cli,
            csv_file_path, exit_code, probe, result>>

\* the directory holds one cashbox file
InitOverlap ==
    /\ fs \in {{[name |-> CashboxName(k, 1), id |-> 1, content |-> k]} : k \in Kinds}
    /\ dropped = 1
    /\ clock = [day |-> 0, sec |-> 0]
    /\ committed = EmptyDb
    /\ db = EmptyDb
    /\ inTx = FALSE
    /\ pc = "idle"
    /\ runs = 0
    /\ todo = {}
    /\ cur = NoFile
    /\ rowsRead = <<>>
    /\ batch_data = <<>>
    /\ users_cache = NoCache
    /\ teams_map = {}
    /\ commits = 0
    /\ truncs = [k \in Kinds |-> 0]
    /\ hist = <<>>
    /\ preRun = EmptyDb
    /\ cli = "none"
    /\ csv_file_path = NoFile
    /\ exit_code = NULL
    /\ probe = NoProbe
    /\ result = NoProbe
    /\ overlap = [of |-> "runs", run |-> [p \in Runs |-> NoRun]]

\* the except clauses and the finally: rollback, the connection is closed
fail_run(r, error) ==
    [r EXCEPT !.pc = "failed", !.lock = "none", !.db = EmptyDb, !.error = error]

\* a file that opens whether it is there or not
open_file_always(f, e) == TRUE

\* open(file_path): the file is there under the name the run has for it
open_file(f, e) == exists(f, e.name)

\* import_data is called, with the path of a file of the directory or without
CallImport(p) ==
    /\ overlap.run[p].pc = "idle"
    /\ \E e \in {NoFile} \cup get_files_to_import(fs) :
         overlap' = [overlap EXCEPT !.run[p].pc = "begun", !.run[p].file_path = e]
    /\ UNCHANGED <<fs, committed, single>>

\* BEGIN TRANSACTION and the two SELECTs that fill the caches
LoadCaches(p) ==
    /\ overlap.run[p].pc = "begun"
    /\ overlap' = [overlap EXCEPT !.run[p].pc = "loop", !.run[p].lock = "shared",
                                  !.run[p].db = committed]
    /\ UNCHANGED <<fs, committed, single>>

\* the file loop starts: the file of the path, or the files the directory holds
\* now
NextFile(p) ==
    /\ overlap.run[p].pc = "loop"
    /\ LET r == overlap.run[p]
           files == IF r.file_path # NoFile THEN {r.file_path}
                    ELSE get_files_to_import(fs)
       IN  IF files = {}
           THEN overlap' = [overlap EXCEPT !.run[p].pc = "commit"]
           ELSE \E e \in files :
                  overlap' = [overlap EXCEPT !.run[p].pc = "truncate", !.run[p].file = e]
    /\ UNCHANGED <<fs, committed, single>>

\* truncate_table: the first write of the transaction
Truncate(p) ==
    /\ overlap.run[p].pc = "truncate"
    /\ overlap.run[Other(p)].lock # "reserved"
    /\ overlap' = [overlap EXCEPT
                     !.run[p].pc = "open", !.run[p].lock = "reserved",
                     !.run[p].db = truncate_table(@, file_type_of(overlap.run[p].file))]
    /\ UNCHANGED <<fs, committed, single>>

\* with open(file_path)
OpenFile(p) ==
    /\ overlap.run[p].pc = "open"
    /\ overlap' = [overlap EXCEPT !.run[p] =
                     IF open_file(fs, @.file) THEN [@ EXCEPT !.pc = "rows"]
                     ELSE fail_run(@, "FileNotFoundError")]
    /\ UNCHANGED <<fs, committed, single>>

\* a row of the file is read and inserted
ReadRow(p) ==
    /\ overlap.run[p].pc = "rows"
    /\ overlap.run[p].rows = 0
    /\ \E row \in RowPool[file_type_of(overlap.run[p].file)] :
         LET r == overlap.run[p]
             file_type == file_type_of(r.file)
             t == Transformed[file_type][row][clock.day]
         IN  IF ~t.ok
             THEN overlap' = [overlap EXCEPT !.run[p] = fail_run(r, "row")]
             ELSE LET d1 == ensure_team(r.db, load_teams_map(r.db), t.team_id, t.team_name)
                      u == resolve_user(d1, load_users_cache(d1), t.user_name, t.team_id)
                      entry == ledger_entry(t, u.user_id, row, p, r.file.id)
                      res == process_batch(u.db, file_type, <<entry>>)
                  IN  IF res.ok
                      THEN overlap' = [overlap EXCEPT !.run[p].db = res.db,
                                                      !.run[p].rows = 1]
                      ELSE overlap' = [overlap EXCEPT !.run[p] = fail_run(r, "row")]
    /\ UNCHANGED <<fs, committed, single>>

\* the reader is exhausted and the file is closed
CloseFile(p) ==
    /\ overlap.run[p].pc = "rows"
    /\ overlap' = [overlap EXCEPT !.run[p].pc = "rename"]
    /\ UNCHANGED <<fs, committed, single>>

\* os.rename(file_path, new_filepath), which raises when file_path is gone
RenameFile(p) ==
    /\ overlap.run[p].pc = "rename"
    /\ LET r == overlap.run[p]
       IN  IF exists(fs, r.file.name)
           THEN /\ fs' = os_rename(fs, r.file,
                                   new_filepath(fs, file_type_of(r.file), clock))
                /\ overlap' = [overlap EXCEPT !.run[p].pc = "commit"]
           ELSE /\ fs' = fs
                /\ overlap' = [overlap EXCEPT !.run[p] = fail_run(r, "FileNotFoundError")]
    /\ UNCHANGED <<committed, single>>

\* conn.commit(): a run that has written needs every other lock gone
CommitRun(p) ==
    /\ overlap.run[p].pc = "commit"
    /\ overlap.run[p].lock = "reserved" => overlap.run[Other(p)].lock = "none"
    /\ committed' = IF overlap.run[p].lock = "reserved" THEN overlap.run[p].db
                    ELSE committed
    /\ overlap' = [overlap EXCEPT !.run[p].pc = "done", !.run[p].lock = "none"]
    /\ UNCHANGED <<fs, single>>

\* a statement waits for a lock until its timeout: "database is locked"
Locked(p) ==
    /\ \/ /\ overlap.run[p].pc = "truncate"
          /\ overlap.run[Other(p)].lock = "reserved"
       \/ /\ overlap.run[p].pc = "commit"
          /\ overlap.run[p].lock = "reserved"
          /\ overlap.run[Other(p)].lock # "none"
    /\ overlap' = [overlap EXCEPT !.run[p] = fail_run(@, "database is locked")]
    /\ UNCHANGED <<fs, committed, single>>

NextOverlap ==
    \E p \in Runs :
        \/ CallImport(p)
        \/ LoadCaches(p)
        \/ NextFile(p)
        \/ Truncate(p)
        \/ OpenFile(p)
        \/ ReadRow(p)
        \/ CloseFile(p)
        \/ RenameFile(p)
        \/ CommitRun(p)
        \/ Locked(p)

SpecOverlap == InitOverlap /\ [][NextOverlap]_vars

(* ---- properties ---- *)

InRun == pc \in {"files", "rows", "archive"}

\* the columns of a ledger row, without its history
Data(t) == [user_id |-> t.user_id, team_id |-> t.team_id,
            created_date |-> t.created_date, reason |-> t.reason,
            amount |-> t.amount, currency |-> t.currency, subject |-> t.subject,
            paid_date |-> t.paid_date, user_paid |-> t.user_paid]

Names(users) == {u.user_name : u \in users}

\* the last row the reader yielded raised on its created date
LastRowUnparsable ==
    /\ Len(rowsRead) >= 1
    /\ file_type_of(cur) = "punishments"
    /\ strptime(fixed_row("punishments", rowsRead[Len(rowsRead)])["created"], DMY)
         = ValueError

\* C1: when a run ends in a fatal error, the store holds no ledger row that this
\* run inserted, neither from the failing file nor from a file processed before.
C1_AtomicFailure ==
    pc = "aborted" =>
        \A k \in Kinds : \A i \in 1..Len(committed[k]) : committed[k][i].run # runs

\* a run aborted by an unparsable created date after a first file with rows
C1_Witness ==
    /\ pc = "aborted"
    /\ Len(hist) = 1
    /\ hist[1].n >= 1
    /\ LastRowUnparsable

\* C2: when a run aborts, the store equals the store as it was when the run
\* started: truncated rows are back, users and teams inserted by the run are gone.
C2_NoPartialEffect ==
    pc = "aborted" => committed = preRun /\ db = preRun

\* an aborted run that had truncated a non-empty table and had inserted a user
C2_Witness ==
    /\ pc = "aborted"
    /\ \E k \in Kinds : truncs[k] > 0 /\ Len(preRun[k]) > 0
    /\ Len(rowsRead) >= 1
    /\ LET t == Transformed[file_type_of(cur)][rowsRead[1]][clock.day]
       IN  t.ok /\ t.user_name \notin Names(preRun.users)

\* C3: the transaction is open whenever a table is truncated, no commit is issued
\* while the file loop runs, a successful run has issued exactly one commit, after
\* its last file, and an aborted run has issued none.
C3_SingleTransaction ==
    /\ [](/\ InRun => inTx /\ commits = 0
          /\ pc = "done" => commits = 1 /\ todo = {} /\ ~inTx
          /\ pc = "aborted" => commits = 0)
    /\ [][(\E k \in Kinds : db'[k] # db[k]) /\ pc = "files" => inTx]_vars

\* a successful run of two files
C3_Witness == pc = "done" /\ Len(hist) = 2 /\ commits = 1

\* the positions of hist that hold a file of kind k
FilesOf(k) == {i \in 1..Len(hist) : hist[i].type = k}

\* the last file of kind k the run processed
LastOf(k) == hist[CHOOSE i \in FilesOf(k) : \A j \in FilesOf(k) : j <= i]

\* a ledger row is the transform of its source row, and its user_id is the id of
\* the users row of the name it references
MadeFrom(k, t, users) ==
    /\ \E day \in 0..MaxDay :
         LET x == Transformed[k][t.raw][day]
         IN  /\ x.ok
             /\ t.team_id = x.team_id
             /\ t.created_date = x.created_date
             /\ t.paid_date = x.paid_date
             /\ t.name = x.user_name
    /\ \E u \in users : u.user_id = t.user_id /\ u.user_name = t.name

\* C4: after a successful run, the table of every kind the run processed holds
\* exactly the rows of the last file of that kind: as many rows as the file has
\* data rows, each made from its data row, none from before the run.
C4_Snapshot ==
    /\ pc = "archive" => Sources(db[file_type_of(cur)]) = rowsRead
    /\ pc = "done" =>
         \A k \in Kinds : FilesOf(k) # {} =>
             /\ Len(committed[k]) = LastOf(k).n
             /\ \A j \in 1..Len(committed[k]) :
                  /\ committed[k][j].file = LastOf(k).id
                  /\ committed[k][j].run = runs
                  /\ MadeFrom(k, committed[k][j], committed.users)

\* a table that held a row before the run holds the two rows of the new file
C4_Witness ==
    /\ pc = "done"
    /\ \E k \in Kinds :
         /\ Len(preRun[k]) = 1
         /\ FilesOf(k) # {}
         /\ LastOf(k).n = 2
         /\ Len(committed[k]) = 2

\* every file of the run has the content its table was loaded from before
SameContentAgain == hist # <<>> /\ \A i \in 1..Len(hist) : hist[i].same

DataRows(table) == [i \in 1..Len(table) |-> Data(table[i])]

\* the columns of a table, the paid date left out where it is the day of the import
DataRowsButToday(k, table) ==
    [i \in 1..Len(table) |->
        IF ReadsClock[k][table[i].raw]
        THEN [Data(table[i]) EXCEPT !.paid_date = NULL]
        ELSE Data(table[i])]

\* C5 as claimed: importing the content a table was loaded from leaves the table,
\* the users and the teams as they were.
C5_Idempotence_AsClaimed ==
    pc = "done" /\ SameContentAgain =>
        /\ \A i \in 1..Len(hist) :
             DataRows(committed[hist[i].type]) = DataRows(preRun[hist[i].type])
        /\ committed.users = preRun.users
        /\ committed.teams = preRun.teams

\* C5 (amended): importing the content a table was loaded from leaves the users and
\* the teams as they were and the table with the same rows, except that a due
\* with STATUS_EXEMPT and no payment date carries the day of the import that
\* loaded it as its paid date.
C5_Idempotence ==
    pc = "done" /\ SameContentAgain =>
        /\ \A i \in 1..Len(hist) :
             DataRowsButToday(hist[i].type, committed[hist[i].type])
                = DataRowsButToday(hist[i].type, preRun[hist[i].type])
        /\ committed.users = preRun.users
        /\ committed.teams = preRun.teams

\* a second import of the content of a non-empty table
C5_Witness ==
    /\ pc = "done"
    /\ SameContentAgain
    /\ \E i \in 1..Len(hist) : hist[i].n >= 1

\* the files of kind k whose iteration the run has begun
FilesBegun(k) ==
    Cardinality(FilesOf(k))
        + (IF pc \in {"rows", "archive"} /\ file_type_of(cur) = k THEN 1 ELSE 0)

\* C6 as claimed: a table is truncated for the first file of its kind and not
\* again in the same run.
C6_TruncateOnce_AsClaimed ==
    InRun => \A k \in Kinds : truncs[k] = (IF FilesBegun(k) > 0 THEN 1 ELSE 0)

\* C6 (amended): a table is truncated once for every file of its kind, when the
\* file's iteration begins and before any row of that file is loaded, so that
\* while a file is processed its table holds rows of that file only.
C6_TruncatePerFile ==
    InRun =>
        /\ \A k \in Kinds : truncs[k] = FilesBegun(k)
        /\ pc \in {"rows", "archive"} =>
             \A j \in 1..Len(db[file_type_of(cur)]) :
                 /\ db[file_type_of(cur)][j].file = cur.id
                 /\ db[file_type_of(cur)][j].run = runs

\* the second file of a kind being loaded after a first one with rows
C6_Witness ==
    /\ pc = "archive"
    /\ Len(hist) = 1
    /\ hist[1].type = file_type_of(cur)
    /\ hist[1].n >= 1
    /\ truncs[file_type_of(cur)] = 2
    /\ Len(db[file_type_of(cur)]) >= 1

\* the ledger rows the current run has produced: inserted or still in the batch
RunRows ==
    {t \in UNION {{db[k][i] : i \in 1..Len(db[k])} : k \in Kinds} : t.run = runs}
        \cup {batch_data[i] : i \in 1..Len(batch_data)}

\* C7: within a run, rows that reference the same user name carry the same
\* user_id, and the run inserts at most one users row per name.
C7_UserDedup ==
    InRun \/ pc = "done" =>
        /\ \A a, b \in RunRows : a.name = b.name => a.user_id = b.user_id
        /\ \A n \in Names(db.users) :
             Cardinality({u \in db.users \ preRun.users : u.user_name = n}) <= 1

\* rows of two files of one run reference a user the store did not know
C7_Witness ==
    /\ pc = "done"
    /\ \E a, b \in RunRows :
         /\ a.file # b.file
         /\ a.name = b.name
         /\ a.name \notin Names(preRun.users)

NoDuplicateNames(users) ==
    \A u, v \in users : u.user_name = v.user_name => u = v

\* C8: the users table never holds two rows of one name, during a run, after a
\* commit and after an abort.
C8_UniqueNames == NoDuplicateNames(db.users) /\ NoDuplicateNames(committed.users)

\* a later run has referenced a name the store already held
C8_Witness ==
    /\ pc = "done"
    /\ runs = 2
    /\ \E t \in RunRows : t.name \in Names(preRun.users)

\* the file is no longer in the directory under a cashbox name
Renamed(id) == ~ \E e \in fs : e.id = id /\ e.name[1] = "cashbox"

Archived(kind) == \E e \in fs : e.name[1] \in {"dated", "stamped"} /\ e.name[2] = kind

\* C9: before the commit of a run, every file the run has fully processed is
\* already renamed; it stays renamed when the run aborts on a later file, while
\* no row of the run is in the store.
C9_ArchiveBeforeCommit ==
    (InRun \/ pc = "aborted") /\ commits = 0 =>
        /\ \A i \in 1..Len(hist) : Renamed(hist[i].id) /\ Archived(hist[i].type)
        /\ pc = "aborted" =>
             \A k \in Kinds : \A j \in 1..Len(committed[k]) : committed[k][j].run # runs

\* a run aborted on its second file, its first file with rows already renamed
C9_Witness ==
    /\ pc = "aborted"
    /\ Len(hist) = 1
    /\ hist[1].n >= 1
    /\ Renamed(hist[1].id)
    /\ cur.id # hist[1].id

\* C10: archiving never replaces an existing file: no step removes a file from
\* the directory.
C10_CollisionSafe ==
    [][\A e \in fs : \E e2 \in fs' : e2.id = e.id]_vars

\* the prefixes of the headers of a file
PrefixesIn(headers) ==
    {p \in DOMAIN HeadersWith : \E i \in 1..Len(headers) : headers[i] \in HeadersWith[p]}

\* neither the name of the file nor its header line shows a kind
Unclassifiable(e) ==
    /\ e.name[1] # "cashbox"
    /\ \/ ~FileContent[e.content].readable
       \/ PrefixesIn(FileContent[e.content].headers) = {}

\* C11: when import_data is given a file whose kind shows neither in its name nor
\* in its header line, it returns without raising: no table is truncated, the
\* store is as before the call, and the file keeps its name.
C11_SkipUnclassifiable ==
    csv_file_path # NoFile /\ Unclassifiable(csv_file_path) =>
        /\ pc = "skipped"
        /\ exit_code = 0
        /\ truncs = [k \in Kinds |-> 0]
        /\ db = preRun
        /\ committed = preRun
        /\ ~inTx
        /\ csv_file_path \in fs

\* a file of notes given after an import has filled the punishments table
C11_Witness ==
    /\ pc = "skipped"
    /\ csv_file_path.content = "notes"
    /\ Unclassifiable(csv_file_path)
    /\ Len(preRun.punishments) > 0

\* a row under study of kind k has been imported
Imported(k) == result # NoProbe /\ result.of = "row" /\ probe.file_type = k

\* C12: the paid date stored for a due is, with STATUS_EXEMPT, the row's
\* user_payment_date when it has one and the day of the import when it has none,
\* with STATUS_PAID and a user_payment_date that date, and null otherwise.
C12_DuePaidDate ==
    /\ Imported("dues")
    /\ result.stored
    /\ probe.alias.paid_date = "user_payment_date"
    /\ probe.data.paid_date \in {<<>>, <<"2024-01-02">>}
    => result.row.paid_date =
         (LET status == probe.data.user_paid
              payment == IF probe.data.paid_date = <<>> THEN NULL
                         ELSE strptime(probe.data.paid_date, YMD)
          IN  IF status = <<"STATUS_EXEMPT">>
              THEN (IF payment # NULL THEN payment ELSE probe.today)
              ELSE IF status = <<"STATUS_PAID">> /\ payment # NULL THEN payment
              ELSE NULL)

\* the columns a row is stored with, or that it is not stored
Outcome(r) == IF r.stored THEN <<TRUE, Data(r.row), r.row.name>> ELSE <<FALSE>>

\* the first alias the table of a kind lists for a column
FirstAlias ==
    [punishments |->
        [team_id |-> "team_id", team_name |-> "team_name",
         created |-> "penalty_created", user |-> "penalty_user",
         reason |-> "penalty_reason", amount |-> "penalty_amount",
         currency |-> "penalty_currency",
         paid_date |-> "penalty_paid", user_paid |-> "user_paid",
         subject |-> "penalty_subject"],
     dues |->
        [team_id |-> "team_id", team_name |-> "team_name",
         created |-> "due_created", user |-> "due_user",
         reason |-> "due_reason", amount |-> "due_amount",
         currency |-> "due_currency",
         paid_date |-> "due_paid", user_paid |-> "user_paid",
         subject |-> "due_subject"],
     transactions |->
        [team_id |-> "team_id", team_name |-> "team_name",
         created |-> "transaction_date", user |-> "transaction_user",
         reason |-> "transaction_reason", amount |-> "transaction_amount",
         currency |-> "transaction_currency",
         paid_date |-> "", user_paid |-> "",
         subject |-> "transaction_subject"]]

\* the headers of a file with every alias replaced by the first of its column
Respelt(k, alias) ==
    [c \in DOMAIN alias |-> IF alias[c] = "" THEN "" ELSE FirstAlias[k][c]]

\* C13: a row is stored the same whichever alias of a column its file uses: as
\* the row with the same cells under the first alias of every column is.
C13_AliasEquivalence ==
    result # NoProbe /\ result.of = "row" =>
        Outcome(result) =
            Outcome(import_row(probe.file_type,
                               BuildRow(probe.data, Respelt(probe.file_type, probe.alias)),
                               probe.today))

\* C14: a transaction whose subject holds ": <name> (" is attributed to <name>,
\* any other to SYSTEM, and without a reason column the stored reason is the
\* subject.
C14_TransactionUser ==
    Imported("transactions") /\ result.stored =>
        /\ result.row.name =
             (IF extract_user_from_subject(probe.data.subject) = <<>>
              THEN <<"SYSTEM">>
              ELSE extract_user_from_subject(probe.data.subject))
        /\ probe.alias.reason = "" => result.row.reason = probe.data.subject

\* the amount cell of the row under study is not a number
AmountUnparsable == float(probe.data.amount) = ValueError

\* its paid-date cell is not empty and not a date in the format of its kind
PaidUnparsable ==
    /\ probe.alias.paid_date # ""
    /\ probe.data.paid_date # <<>>
    /\ strptime(probe.data.paid_date,
                IF probe.file_type = "dues" THEN YMD ELSE DMY) = ValueError

\* the row under study with other cells is stored
StoredWith(data) ==
    import_row(probe.file_type, BuildRow(data, probe.alias), probe.today).stored

\* C15 as claimed: a row with an unparsable amount is stored with amount 0, a row
\* with an unparsable paid date is stored with paid date null, whenever the row
\* with a zero amount, or with an empty paid-date cell, is stored.
C15_NonFatal_AsClaimed ==
    result # NoProbe /\ result.of = "row" =>
        /\ AmountUnparsable /\ StoredWith([probe.data EXCEPT !.amount = <<"0">>])
             => result.stored /\ result.row.amount = 0
        /\ PaidUnparsable /\ StoredWith([probe.data EXCEPT !.paid_date = <<>>])
             => result.stored /\ result.row.paid_date = NULL

\* C15 (amended): a row with an unparsable amount is stored with amount 0, a row
\* with an unparsable paid date is stored with the paid date of an empty cell,
\* null or, for a due with STATUS_EXEMPT, the day of the import, whenever the row
\* with a zero amount, or with an empty paid-date cell, is stored.
C15_NonFatal ==
    result # NoProbe /\ result.of = "row" =>
        /\ AmountUnparsable /\ StoredWith([probe.data EXCEPT !.amount = <<"0">>])
             => result.stored /\ result.row.amount = 0
        /\ PaidUnparsable /\ StoredWith([probe.data EXCEPT !.paid_date = <<>>])
             => /\ result.stored
                /\ result.row.paid_date =
                     (IF probe.file_type = "dues"
                         /\ probe.data.user_paid = <<"STATUS_EXEMPT">>
                      THEN probe.today ELSE NULL)

\* a punishment stored although neither its amount nor its paid date parses
C15_Witness ==
    /\ Imported("punishments")
    /\ AmountUnparsable
    /\ PaidUnparsable
    /\ probe.alias.paid_date = "penalty_paid"
    /\ result.stored
    /\ result.row.amount = 0
    /\ result.row.paid_date = NULL

\* C16: every punishment and every due in the committed store has no paid date
\* or a paid date not before its created date.
C16_PaidNotBeforeCreated ==
    \A k \in {"punishments", "dues"} : \A i \in 1..Len(committed[k]) :
        \/ committed[k][i].paid_date = NULL
        \/ committed[k][i].paid_date >= committed[k][i].created_date

\* a committed due with STATUS_EXEMPT and no payment date, created on the day of
\* the import and paid on it
C16_Witness ==
    /\ pc = "done"
    /\ \E i \in 1..Len(committed.dues) :
         /\ ReadsClock["dues"][committed.dues[i].raw]
         /\ committed.dues[i].run = runs
         /\ committed.dues[i].created_date = MaxDay
         /\ committed.dues[i].paid_date = clock.day

\* the rows of the current file in a table other than its own
Misplaced ==
    {k \in Kinds \ {file_type_of(cur)} :
        \E j \in 1..Len(db[k]) : db[k][j].file = cur.id /\ db[k][j].run = runs}

\* C19: the batch never holds more than batch_size rows and is inserted and
\* emptied as soon as it holds batch_size; it is empty when a file starts; every
\* row transformed so far is once in the table of its kind or in the batch, and
\* at the end of the file every row is once in the table.
C19_BatchBuffer ==
    /\ Len(batch_data) <= batch_size
    /\ pc = "rows" =>
         /\ Len(batch_data) < batch_size
         /\ rowsRead = <<>> => batch_data = <<>>
         /\ Sources(db[file_type_of(cur)]) \o Sources(batch_data) = rowsRead
         /\ Misplaced = {}
    /\ pc = "archive" =>
         /\ Sources(db[file_type_of(cur)]) = rowsRead
         /\ Misplaced = {}

\* a file of one row more than a batch: a full batch and a last row inserted
C19_Witness ==
    /\ pc = "archive"
    /\ Len(rowsRead) = batch_size + 1
    /\ Len(db[file_type_of(cur)]) = batch_size + 1
    /\ Len(batch_data) = 1
    /\ hist # <<>>

\* C21: a stored row has the currency of its currency cell when the cell is not
\* blank, and "EUR" when the cell is blank or the file has no currency column.
C21_CurrencyDefault ==
    result # NoProbe /\ result.of = "row" /\ result.stored =>
        result.row.currency =
            (IF probe.alias.currency # "" /\ NonBlank(probe.data.currency)
             THEN probe.data.currency ELSE EUR)

\* the currency cell of the row under study is absent or a three-letter code
CurrencyValid == probe.alias.currency = "" \/ probe.data.currency = <<"U", "S", "D">>

\* C22: a transaction row whose created date stands under the canonical header
\* transaction_created, with valid values, is stored, with that created date.
C22_CanonicalCreated ==
    /\ Imported("transactions")
    /\ probe.alias.created = "transaction_created"
    /\ CurrencyValid
    => /\ result.stored
       /\ result.row.created_date = strptime(probe.data.created, DMY)

\* C23: no step deletes or alters a committed teams or users row, no step of a
\* run deletes or alters a teams or users row the run sees, truncation included;
\* every committed row is seen by the connection; a team id has one row.
C23_ReferenceTablesGrow ==
    /\ [](/\ committed.users \subseteq db.users
          /\ committed.teams \subseteq db.teams
          /\ \A t1, t2 \in db.teams : t1.team_id = t2.team_id => t1 = t2)
    /\ [][/\ committed.users \subseteq committed'.users
          /\ committed.teams \subseteq committed'.teams
          /\ inTx /\ inTx' => /\ db.users \subseteq db'.users
                              /\ db.teams \subseteq db'.teams]_vars

\* a committed transaction of team 2 under another name than the stored one, in
\* a run that truncated a table that held rows
C23_Witness ==
    /\ pc = "done"
    /\ [team_id |-> 2, team_name |-> <<"Zweite">>] \in committed.teams
    /\ \E i \in 1..Len(committed.transactions) :
         /\ committed.transactions[i].team_id = 2
         /\ committed.transactions[i].run = runs
         /\ raw_row(committed.transactions[i].raw)["team_name"] = <<"Andere">>
    /\ \E k \in Kinds : truncs[k] > 0 /\ preRun[k] # <<>>

\* the id that stands for id after the merge of the store d: the largest id of
\* its name when id is the id of a user, id itself otherwise
Kept(d, id) ==
    IF \E u \in d.users : u.user_id = id
    THEN LET n == (CHOOSE u \in d.users : u.user_id = id).user_name
         IN  CHOOSE i \in ids_of(d, n) : \A j \in ids_of(d, n) : j <= i
    ELSE id

\* C24: after a successful merge the users are the rows that had the largest id
\* of their name, unchanged, one for every name; every ledger row is the row it
\* was, with the id of a removed user replaced by the kept id of the name; teams
\* are unchanged.  Nothing is committed before the end, and after a failure the
\* store is the store from before the call.
C24_Merge ==
    /\ pc = "merged" =>
         /\ committed.users = {u \in preRun.users : u.user_id = Kept(preRun, u.user_id)}
         /\ \A n \in {u.user_name : u \in preRun.users} :
              Cardinality({u \in committed.users : u.user_name = n}) = 1
         /\ \A k \in Kinds :
              /\ Len(committed[k]) = Len(preRun[k])
              /\ \A i \in 1..Len(preRun[k]) :
                   committed[k][i] =
                       [preRun[k][i] EXCEPT !.user_id = Kept(preRun, @)]
         /\ committed.teams = preRun.teams
    /\ pc = "merge" => committed = preRun
    /\ pc = "merge_failed" => committed = preRun /\ db = preRun

\* a merged store in which two rows of a name became one and a ledger row that
\* referenced a removed id references the kept one, next to a user left alone
C24_Witness ==
    /\ pc = "merged"
    /\ \E n \in UserNames : Cardinality(ids_of(preRun, n)) = 2
    /\ \E n \in UserNames : Cardinality(ids_of(preRun, n)) = 1
    /\ \E i \in 1..Len(preRun.punishments) :
         committed.punishments[i].user_id # preRun.punishments[i].user_id
    /\ \E i \in 1..Len(preRun.punishments) :
         committed.punishments[i].user_id = preRun.punishments[i].user_id

\* C25: paying an unpaid penalty marks it paid, with paid_at set, and adds one
\* transaction; paying a paid penalty leaves the store as it was.
C25_OnePaymentOneTransaction ==
    result # NoProbe /\ result.of = "pay" /\ get_penalty(probe.store, probe.penalty_id) # NoPenalty =>
        LET before == get_penalty(probe.store, probe.penalty_id)
            after == get_penalty(result.store, probe.penalty_id)
        IN  IF before.paid
            THEN result.store = probe.store
            ELSE /\ after.paid
                 /\ after.paid_at # NULL
                 /\ Len(result.store.transactions) = Len(probe.store.transactions) + 1

\* the kinds of which the current run has not begun a file
Untouched == {k \in Kinds : truncs[k] = 0}

\* C26: during a run and after it, committed or aborted, the table of every kind
\* of which the run has begun no file holds the rows it held when the run
\* started, for the connection and in the committed store.
C26_KindIsolation ==
    InRun \/ pc \in {"done", "aborted"} =>
        \A k \in Untouched : db[k] = preRun[k] /\ committed[k] = preRun[k]

\* a committed run that replaced the rows of one kind next to a table of another
\* kind that holds rows
C26_Witness ==
    /\ pc = "done"
    /\ \E k \in Untouched : committed[k] # <<>>
    /\ \E k \in Kinds \ Untouched : committed[k] # <<>> /\ committed[k] # preRun[k]

\* the source files a step takes the name from
SourcesRenamed == {e \in fs \ fs' : e.name[1] = "cashbox"}

\* C27: the files a run has not reached and the file it is reading are in the
\* directory under their names; a step that renames a source file renames the
\* current file, after the end of the file, with every row read in the table; a
\* step that aborts the run renames nothing.
C27_RenameAfterProcessing ==
    /\ [](/\ InRun => todo \subseteq fs
          /\ pc \in {"rows", "archive"} => cur \in fs
          /\ pc = "aborted" /\ cur # NoFile /\ (\A i \in 1..Len(hist) : hist[i].id # cur.id)
                => cur \in fs)
    /\ [][/\ SourcesRenamed # {} =>
               /\ pc = "archive"
               /\ pc' = "files"
               /\ SourcesRenamed = {cur}
               /\ Sources(db[file_type_of(cur)]) = rowsRead
          /\ pc # "aborted" /\ pc' = "aborted" => fs' = fs /\ todo \subseteq fs']_vars

\* a run aborted on its second file: the first is renamed, the second keeps its
\* name
C27_Witness ==
    /\ pc = "aborted"
    /\ Len(hist) = 1
    /\ hist[1].n > 0
    /\ Renamed(hist[1].id)
    /\ cur.id # hist[1].id
    /\ cur \in fs
    /\ cur.name[1] = "cashbox"

\* C28: no archived file is a file to import; after a successful run no file to
\* import remains, and the run that follows finds none; a run that found no file
\* truncates no table and leaves the store as it was.
C28_NoReimport ==
    /\ [](/\ \A e \in fs : e.name[1] \in {"dated", "stamped"}
                => e \notin get_files_to_import(fs)
          /\ pc = "done" => get_files_to_import(fs) = {}
          /\ pc \in {"files", "done"} /\ hist = <<>> /\ todo = {}
                => /\ \A k \in Kinds : truncs[k] = 0
                   /\ db = preRun
                   /\ committed = preRun)
    /\ [][pc = "done" /\ runs' = runs + 1
            => todo' = {} /\ \A k \in Kinds : truncs'[k] = 0]_vars

\* the run after a run that imported and archived a file with rows: it is done,
\* has processed no file, and the rows are still there
C28_Witness ==
    /\ pc = "done"
    /\ runs = 2
    /\ hist = <<>>
    /\ \E e \in fs : e.name[1] \in {"dated", "stamped"}
    /\ \E k \in Kinds : committed[k] # <<>> /\ committed[k] = preRun[k]

\* every ledger row of the store d references a users row and a teams row of d
Referenced(d) ==
    \A k \in Kinds : \A i \in 1..Len(d[k]) :
        /\ \E u \in d.users : u.user_id = d[k][i].user_id
        /\ \E t \in d.teams : t.team_id = d[k][i].team_id

CommittedFile(p) == overlap.run[p].pc = "done" /\ overlap.run[p].file # NoFile

\* run p is about to open or to rename a file that is not there under its name
FindsRenamed(p) ==
    /\ overlap.run[p].pc \in {"open", "rename"}
    /\ ~exists(fs, overlap.run[p].file.name)

\* the ledger rows of the committed store that run p inserted
RowsOf(p) ==
    {<<k, i>> \in Kinds \X (1..MaxRows) :
        i <= Len(committed[k]) /\ committed[k][i].run = p}

\* C30: of two runs at once at most one commits the rows of the file, and the
\* committed store holds rows of one run only; a run that has failed has left
\* nothing in the committed store; the step of a run that finds its file gone,
\* on opening or on renaming it, fails the run with a file error; and the
\* committed store changes only when a run commits.
C30_OverlappingRuns ==
    /\ [](/\ ~(CommittedFile(1) /\ CommittedFile(2))
          /\ RowsOf(1) = {} \/ RowsOf(2) = {}
          /\ \A p \in Runs : overlap.run[p].pc = "failed" => RowsOf(p) = {})
    /\ [][/\ \A p \in Runs :
               FindsRenamed(p) /\ overlap'.run[p] # overlap.run[p]
                   => /\ overlap'.run[p].pc = "failed"
                      /\ overlap'.run[p].error = "FileNotFoundError"
          /\ committed' # committed
               => \E p \in Runs : /\ overlap.run[p].pc = "commit"
                                   /\ overlap'.run[p].pc = "done"
                                   /\ committed' = overlap.run[p].db]_vars

\* both runs chose the file; one has committed its row, the other found the file
\* renamed when it opened it, after truncating the table, and has failed
C30_Witness ==
    /\ overlap # NoOverlap
    /\ \E p \in Runs :
         /\ CommittedFile(p)
         /\ RowsOf(p) # {}
         /\ overlap.run[Other(p)].pc = "failed"
         /\ overlap.run[Other(p)].error = "FileNotFoundError"
         /\ overlap.run[Other(p)].file = overlap.run[p].file
         /\ \A k \in Kinds : committed[k] = overlap.run[p].db[k]

\* the name follows cashbox-{kind}-{date}-{time}.csv
MatchesConvention(e) == e.name[1] = "cashbox"

NewestMatching(f) ==
    CHOOSE e \in {x \in f : MatchesConvention(x)} :
        \A x \in f : MatchesConvention(x) => x.id <= e.id

\* C17: run_import without an argument imports the file modified last among the
\* files whose name follows the convention; a successful import exits with
\* status 0, a fatal error exits with another status after the rollback.
C17_Cli ==
    /\ [](cli # "none" =>
            /\ pc = "done" => exit_code = 0
            /\ pc = "aborted" =>
                 exit_code \notin {0, NULL} /\ db = committed /\ committed = preRun)
    /\ [][cli' = "latest" /\ runs' # runs /\ (\E e \in fs : MatchesConvention(e))
            => csv_file_path' = NewestMatching(fs) /\ pc' = "files"]_vars

\* C20: detect_file_type reports punishments when a header starts with penalty_
\* or penatly_, otherwise dues when one starts with due_, otherwise transactions
\* when one starts with transaction_, otherwise no kind; a file that cannot be
\* read has no kind.
C20_Sniffing ==
    result # NoProbe /\ result.of = "detect_file_type" =>
        result.file_type =
            (IF ~probe.readable THEN None
             ELSE IF PrefixesIn(probe.headers) \cap {"penalty_", "penatly_"} # {}
             THEN "punishments"
             ELSE IF "due_" \in PrefixesIn(probe.headers) THEN "dues"
             ELSE IF "transaction_" \in PrefixesIn(probe.headers) THEN "transactions"
             ELSE None)

\* a file with a due_ header before a misspelt punishment header
C20_Witness ==
    /\ result # NoProbe
    /\ result.of = "detect_file_type"
    /\ probe.readable
    /\ probe.headers = <<"due_created", "penatly_user">>
    /\ result.file_type = "punishments"

====
